---- MODULE Spec2Model ----
(***************************************************************************)
(* A model of pyxtal/interface/gulp.py: the GULP calculator (write,        *)
(* execute, read, clean, run), the molecular variant GULP_OC, and the      *)
(* drivers single_optimize and optimize.                                   *)
(*                                                                         *)
(* A log is a sequence of lines.  A line is described by what the parser   *)
(* can see of it: which of the three energy regular expressions it matches *)
(* (pat) and the value token they capture (val), which literal markers     *)
(* str.find() locates in it (has), and its whitespace-separated tokens     *)
(* (toks).  Numbers are kept as tokens in the log and converted by Float   *)
(* and IntOf, which fail on a malformed token as float() and int() do.     *)
(***************************************************************************)
EXTENDS Integers, Sequences, FiniteSets, TLC

\* ---------------------------------------------------------------- bounds
\* number of segments (single lines or whole blocks) the external program
\* writes over a behaviour
MaxSegs == 2
\* number of run()/read() calls on one calculator
MaxRuns == 2

\* ---------------------------------------------------------------- values
\* Python values: None, a finite float, nan, +/-inf; Exc marks a raised
\* exception where a value was expected.
None == [k |-> "none", v |-> 0]
Fin(n) == [k |-> "fin", v |-> n]
NaN == [k |-> "nan", v |-> 0]
Inf(s) == [k |-> "inf", v |-> s]
Exc == [k |-> "exc", v |-> 0]

\* the element of a one-element set; The({e(x) : x \in {v}}) is e(v) with v
\* computed once
The(S) == CHOOSE x \in S : TRUE

\* an attribute that is None until it is assigned the array v
Some(v) == [k |-> "some", v |-> v]
IsNone(x) == x.k = "none"
IsExc(x) == x.k = "exc"
\* np.isnan
IsNan(x) == x.k = "nan"

\* the integer literals that occur in the modelled logs
NumericToks == {"0", "1", "2", "3", "5", "90", "-2", "-4", "-6"}

TokInt(t) ==
    CASE t = "0" -> 0
      [] t = "1" -> 1
      [] t = "2" -> 2
      [] t = "3" -> 3
      [] t = "5" -> 5
      [] t = "90" -> 90
      [] t = "-2" -> -2
      [] t = "-4" -> -4
      [] t = "-6" -> -6
      [] OTHER -> 0

\* float(token): ValueError on anything that is not a number
Float(t) ==
    IF t \in NumericToks THEN Fin(TokInt(t))
    ELSE IF t = "nan" THEN NaN
    ELSE IF t = "inf" THEN Inf(1)
    ELSE IF t = "-inf" THEN Inf(-1)
    ELSE Exc

\* int(token): ValueError on anything that is not an integer literal
IntOf(t) == IF t \in NumericToks THEN Fin(TokInt(t)) ELSE Exc

\* -float(x) * eV / Ang, with eV = Ang = 1
Neg(x) ==
    IF x.k = "fin" THEN Fin(0 - x.v)
    ELSE IF x.k = "inf" THEN Inf(0 - x.v)
    ELSE x

AnyExc(s) == \E n \in 1..Len(s) : IsExc(s[n])
FloatAll(ts) == [n \in 1..Len(ts) |-> Float(ts[n])]

\* ----------------------------------------------------------------- lines
Line(p, v, h, ts) == [pat |-> p, val |-> v, has |-> h, toks |-> ts]
Text(ts) == Line("", "", {}, ts)
Blank == Text(<<>>)
Dash == Line("", "", {"------------"}, <<"--------------------">>)

JobFinished == "Job Finished"
CpuTime == "Total CPU time"
StressHdr == "Final stress tensor components"
DerivHdr == "Final internal derivatives"
CycleMark == " Cycle: "
AsymHdr == "Final asymmetric unit coordinates"
FracHdr == "Final fractional coordinates of atoms"
CartHdr == "Final Cartesian lattice vectors"
ParaHdr == "Non-primitive lattice parameters"
DashMark == "------------"

\* the three energy-line shapes and the regular expression each one matches
EnergyPats == {"nonprim", "energy", "enthalpy"}
EnergyLine(p, v) ==
    Line(p, v, {},
         IF p = "nonprim" THEN <<"Non-primitive", "unit", "cell", "=", v, "eV">>
         ELSE IF p = "energy" THEN <<"Total", "lattice", "energy", "=", v, "eV">>
         ELSE <<"Total", "lattice", "enthalpy", "=", v, "eV">>)

JobLine == Line("", "", {JobFinished}, <<"Job", "Finished", "at", "12:00">>)
CpuLine(t) == Line("", "", {CpuTime}, <<"Total", "CPU", "time", t>>)
CycleLine(t) == Line("", "", {CycleMark}, <<"Cycle:", t, "Energy:", "-4">>)

\* the five lines between a coordinate-table header and its first row
TableHead ==
    <<Blank, Dash, Text(<<"No.", "Atomic", "x", "y", "z", "Radius">>),
      Text(<<"Label", "(Frac)", "(Frac)", "(Frac)", "(Angs)">>), Dash>>

CoordRow(n, sp, x) == Text(<<n, sp, "c", x, "0", "0", "0">>)
CoordRows(n, sp, x) ==
    IF n = 0 THEN <<>>
    ELSE IF n = 1 THEN <<CoordRow("1", sp, x)>>
    ELSE <<CoordRow("1", sp, x), CoordRow("2", sp, "2")>>

FracBlock(n, x) ==
    <<Line("", "", {FracHdr}, <<"Final", "fractional", "coordinates", "of", "atoms", ":">>)>>
    \o TableHead \o CoordRows(n, "C", x) \o <<Dash>>
AsymBlock(n, x) ==
    <<Line("", "", {AsymHdr}, <<"Final", "asymmetric", "unit", "coordinates", ":">>)>>
    \o TableHead \o CoordRows(n, "C", x) \o <<Dash>>
\* a derivative row; y may be a merged token such as "1-2"
DerivBlock(y) ==
    <<Line("", "", {DerivHdr}, <<"Final", "internal", "derivatives", ":">>)>>
    \o TableHead \o <<Text(<<"1", "C", "c", y, "2", "3", "0">>)>> \o <<Dash>>
StressBlock(x) ==
    <<Line("", "", {StressHdr}, <<"Final", "stress", "tensor", "components", "(GPa):">>),
      Blank, Dash,
      Text(<<"xx", x, "yz", "0">>), Text(<<"yy", "2", "xz", "0">>),
      Text(<<"zz", "3", "xy", "0">>), Dash>>
CartBlock(x) ==
    <<Line("", "", {CartHdr}, <<"Final", "Cartesian", "lattice", "vectors", "(Angstroms)", ":">>),
      Blank,
      Text(<<x, "0", "0">>), Text(<<"0", "3", "0">>), Text(<<"0", "0", "3">>)>>
\* the end of a relaxation: the final energy, coordinates and cell
FinalReport(p, v) == <<EnergyLine(p, v)>> \o FracBlock(2, "1") \o CartBlock("3")
ParaBlock(x) ==
    <<Line("", "", {ParaHdr}, <<"Non-primitive", "lattice", "parameters", ":">>),
      Blank,
      Text(<<"a", "=", x, "b", "=", "2", "c", "=", "2">>),
      Text(<<"alpha=", "90", "beta=", "90", "gamma=", "90">>)>>

\* ------------------------------------------------------------ structures
\* a lattice is kept in the form it was built from
NoLattice == [form |-> "none", v |-> <<>>, ltype |-> ""]
\* Lattice.from_matrix(matrix, ltype)
from_matrix(m, ltype) == [form |-> "matrix", v |-> m, ltype |-> ltype]
\* Lattice.from_para(a, b, c, alpha, beta, gamma, ltype)
from_para(p, ltype) == [form |-> "para", v |-> p, ltype |-> ltype]

\* the cell and the sites of the structures a caller passes in
InputCell == <<Fin(5), Fin(0), Fin(0), Fin(0), Fin(5), Fin(0), Fin(0), Fin(0), Fin(5)>>
Origin == <<Fin(0), Fin(0), Fin(0)>>

\* a pyxtal structure: one site in the asymmetric unit, two atoms in the cell;
\* g is the first letter of its space-group symbol
PyxtalStruc(g) ==
    [kind |-> "pyxtal", symbol0 |-> g, number |-> IF g = "P" THEN 19 ELSE 225,
     atom_sites |-> <<[specie |-> "C", position |-> Origin]>>,
     lattice |-> from_matrix(InputCell, "cubic"),
     symbols |-> <<"C", "C">>,
     positions |-> <<Origin, <<Fin(0), Fin(0), Fin(0)>>>>]
\* an ase.Atoms object with two atoms
AtomsStruc ==
    [kind |-> "atoms", symbol0 |-> "", number |-> 0,
     atom_sites |-> <<>>,
     lattice |-> from_matrix(InputCell, "triclinic"),
     symbols |-> <<"Mg", "O">>,
     positions |-> <<Origin, Origin>>]
\* a pyxtal structure of an oxide: a magnesium and an oxygen site; g is the
\* first letter of its space-group symbol
Shifted == <<Fin(0), Fin(0), Fin(1)>>
OxideStruc(g) ==
    [kind |-> "pyxtal", symbol0 |-> g, number |-> IF g = "P" THEN 1 ELSE 225,
     atom_sites |-> <<[specie |-> "Mg", position |-> Origin],
                      [specie |-> "O", position |-> Shifted]>>,
     lattice |-> from_matrix(InputCell, "cubic"),
     symbols |-> <<"Mg", "O">>,
     positions |-> <<Origin, Shifted>>]
NoStruc ==
    [kind |-> "none", symbol0 |-> "", number |-> 0, atom_sites |-> <<>>, lattice |-> NoLattice,
     symbols |-> <<>>, positions |-> <<>>]

\* energy_per_atom = energy / len(frac_coords), kept as the pair
PerAtom(e, n) == [e |-> e, n |-> n]
NoPerAtom == PerAtom(None, 0)

\* ------------------------------------------------------------- GULP.read
\* a faulty variant: a pressure of 0 counts as a pressure
SelectedPattern_ZeroIsPressure(c, s) ==
    IF c.symmetry /\ ~c.pyxtal THEN "raise"
    ELSE IF c.symmetry /\ s.symbol0 # "P" THEN "nonprim"
    ELSE IF IsNone(c.pstress) THEN "energy"
    ELSE "enthalpy"

\* the regular expression read() tries on a line: "raise" when
\* self.pyxtal is None and symmetry is set (AttributeError)
SelectedPattern(c, s) ==
    IF c.symmetry /\ ~c.pyxtal THEN "raise"
    ELSE IF c.symmetry /\ s.symbol0 # "P" THEN "nonprim"
    ELSE IF IsNone(c.pstress) \/ c.pstress = Fin(0) THEN "energy"
    ELSE "enthalpy"

Min(a, b) == IF a < b THEN a ELSE b
\* line.split()[3:6]
Slice36(ts) == IF Len(ts) < 4 THEN <<>> ELSE SubSeq(ts, 4, Min(6, Len(ts)))

\* the stress block: rows at i+3..i+5, tokens 1 and 3 of each
StressOK(lines, i) ==
    \A j \in 0..2 :
        /\ i + j + 3 <= Len(lines)
        /\ Len(lines[i + j + 3].toks) >= 4
        /\ ~IsExc(Float(lines[i + j + 3].toks[2]))
        /\ ~IsExc(Float(lines[i + j + 3].toks[4]))
StressOf(lines, i) ==
    <<Float(lines[i + 3].toks[2]), Float(lines[i + 4].toks[2]), Float(lines[i + 5].toks[2]),
      Float(lines[i + 3].toks[4]), Float(lines[i + 4].toks[4]), Float(lines[i + 5].toks[4])>>

\* the characters of a token split at its embedded minus signs
Parts(t) ==
    IF t = "1-2" THEN <<"1", "-2">>
    ELSE IF t = "1-2-3" THEN <<"1", "-2", "-3">>
    ELSE <<t>>
\* the column-splitting loop over g[0] and g[1]
SplitMerged(g) ==
    LET n1 == Len(g[1]) - 1
        h == IF n1 = 0 THEN g
             ELSE IF n1 = 1 THEN << <<g[1][1]>>, <<g[1][2]>>, g[2] >>
             ELSE << <<g[1][1]>>, <<g[1][2]>>, SubSeq(g[1], 3, Len(g[1])) >>
        n2 == Len(h[2]) - 1
    IN  IF n1 > 1 \/ n2 = 0 THEN h
        ELSE << h[1], <<h[2][1]>>, SubSeq(h[2], 2, Len(h[2])) >>
\* float() of what is left in one field
FloatParts(p) == IF Len(p) = 1 THEN Float(p[1]) ELSE Exc
DerivRow(ts) ==
    LET xs == Slice36(ts)
        g == [n \in 1..3 |-> IF n <= Len(xs) THEN Parts(xs[n]) ELSE <<" ">>]
    IN  The({[n \in 1..3 |-> Neg(FloatParts(h[n]))] : h \in {SplitMerged(g)}})

\* the rows of a block that ends at a dashed line; ok is FALSE when the
\* loop raised (IndexError at the end of the file, ValueError on a token)
RECURSIVE ReadDerivRows(_, _, _)
ReadDerivRows(lines, s, acc) ==
    IF s > Len(lines) THEN [ok |-> FALSE, rows |-> acc]
    ELSE IF DashMark \in lines[s].has THEN [ok |-> TRUE, rows |-> acc]
    ELSE The({IF AnyExc(G) THEN [ok |-> FALSE, rows |-> acc]
              ELSE ReadDerivRows(lines, s + 1, Append(acc, G)) :
              G \in {DerivRow(lines[s].toks)}})

RECURSIVE ReadFracRows(_, _, _)
ReadFracRows(lines, s, acc) ==
    IF s > Len(lines) THEN [ok |-> FALSE, rows |-> acc]
    ELSE IF DashMark \in lines[s].has THEN [ok |-> TRUE, rows |-> acc]
    ELSE The({IF AnyExc(XYZ) \/ Len(lines[s].toks) < 2 THEN [ok |-> FALSE, rows |-> acc]
              ELSE ReadFracRows(lines, s + 1, Append(acc, XYZ)) :
              XYZ \in {FloatAll(Slice36(lines[s].toks))}})

\* atom_sites[_i].update(XYZ) for _i in range(len(atom_sites)), rows from s;
\* the sites updated before an exception stay updated.  update() takes a
\* coordinate triple.
RECURSIVE ReadAsymRows(_, _, _, _)
ReadAsymRows(lines, s, k, sites) ==
    IF k > Len(sites) THEN [ok |-> TRUE, sites |-> sites]
    ELSE IF s + k - 1 > Len(lines) THEN [ok |-> FALSE, sites |-> sites]
    ELSE The({IF AnyExc(XYZ) \/ Len(XYZ) # 3 THEN [ok |-> FALSE, sites |-> sites]
              ELSE ReadAsymRows(lines, s, k + 1, [sites EXCEPT ![k].position = XYZ]) :
              XYZ \in {FloatAll(Slice36(lines[s + k - 1].toks))}})

\* the three rows of lattice vectors at i+2..i+4
CartOK(lines, i) ==
    \A j \in 2..4 :
        /\ i + j <= Len(lines)
        /\ Len(lines[i + j].toks) >= 3
        /\ \A k \in 1..3 : ~IsExc(Float(lines[i + j].toks[k]))
CartOf(lines, i) ==
    [n \in 1..9 |-> Float(lines[i + 2 + ((n - 1) \div 3)].toks[1 + ((n - 1) % 3)])]

\* the two rows of lattice parameters at i+2 and i+3
ParaOK(lines, i) ==
    /\ i + 2 <= Len(lines)
    /\ Len(lines[i + 2].toks) >= 9
    /\ \A k \in {3, 6, 9} : ~IsExc(Float(lines[i + 2].toks[k]))
    /\ i + 3 <= Len(lines)
    /\ Len(lines[i + 3].toks) >= 6
    /\ \A k \in {2, 4, 6} : ~IsExc(Float(lines[i + 3].toks[k]))
ParaOf(lines, i) ==
    <<Float(lines[i + 2].toks[3]), Float(lines[i + 2].toks[6]), Float(lines[i + 2].toks[9]),
      Float(lines[i + 3].toks[2]), Float(lines[i + 3].toks[4]), Float(lines[i + 3].toks[6])>>

\* what one pass of the loop body does to the fields read() assigns; raised
\* is set where the body raises, which ends the loop
Raise(st) == [st EXCEPT !.raised = TRUE]

ScanLine(lines, i, st, c, s, ltype) ==
    LET line == lines[i]
        pat == SelectedPattern(c, s)
    IN  IF pat = "raise" THEN Raise(st)
        ELSE IF line.pat = pat THEN
            LET e == Float(line.val)
            IN  IF IsExc(e) THEN Raise(st)
                ELSE IF Len(st.frac_coords) = 0 THEN Raise([st EXCEPT !.energy = e])
                ELSE [st EXCEPT !.energy = e,
                                !.energy_per_atom = PerAtom(e, Len(st.frac_coords))]
        ELSE IF JobFinished \in line.has THEN [st EXCEPT !.optimized = TRUE]
        ELSE IF CpuTime \in line.has THEN
            LET t == Float(line.toks[Len(line.toks)])
            IN  IF IsExc(t) THEN Raise(st) ELSE [st EXCEPT !.cputime = t]
        ELSE IF StressHdr \in line.has THEN
            IF StressOK(lines, i) THEN [st EXCEPT !.stress = StressOf(lines, i)]
            ELSE Raise(st)
        ELSE IF DerivHdr \in line.has THEN
            The({IF r.ok THEN [st EXCEPT !.forces = r.rows] ELSE Raise(st) :
                 r \in {ReadDerivRows(lines, i + 6, <<>>)}})
        ELSE IF CycleMark \in line.has THEN
            LET n == IF Len(line.toks) < 2 THEN Exc ELSE IntOf(line.toks[2])
            IN  IF IsExc(n) THEN Raise(st) ELSE [st EXCEPT !.iter = n]
        ELSE IF AsymHdr \in line.has THEN
            IF ~c.pyxtal THEN Raise(st)
            ELSE The({IF r.ok THEN [st EXCEPT !.atom_sites = r.sites]
                      ELSE Raise([st EXCEPT !.atom_sites = r.sites]) :
                      r \in {ReadAsymRows(lines, i + 6, 1, st.atom_sites)}})
        ELSE IF FracHdr \in line.has THEN
            The({IF r.ok THEN [st EXCEPT !.frac_coords = r.rows] ELSE Raise(st) :
                 r \in {ReadFracRows(lines, i + 6, <<>>)}})
        ELSE IF CartHdr \in line.has THEN
            IF CartOK(lines, i)
            THEN [st EXCEPT !.lattice_vector = from_matrix(CartOf(lines, i), ltype)]
            ELSE Raise(st)
        ELSE IF ParaHdr \in line.has THEN
            IF ParaOK(lines, i)
            THEN [st EXCEPT !.lattice_para = from_para(ParaOf(lines, i), ltype)]
            ELSE Raise(st)
        ELSE st

\* for i, line in enumerate(lines), inside the try
RECURSIVE Scan(_, _, _, _, _, _)
Scan(lines, i, st, c, s, ltype) ==
    IF i > Len(lines) \/ st.raised THEN st
    ELSE The({Scan(lines, j, nxt, c, s, ltype) :
              nxt \in {ScanLine(lines, i, st, c, s, ltype)}, j \in {i + 1}})

\* the fields read() starts from
ScanStart(c, s) ==
    [energy |-> c.energy, energy_per_atom |-> c.energy_per_atom,
     optimized |-> c.optimized, cputime |-> c.cputime, stress |-> c.stress,
     forces |-> c.forces, iter |-> c.iter, frac_coords |-> c.frac_coords,
     atom_sites |-> s.atom_sites,
     lattice_para |-> NoLattice, lattice_vector |-> NoLattice, raised |-> FALSE]

\* a faulty variant: the except clause swallows the exception and flags nothing
AfterExcept_Pass(st, error) == [error |-> error, energy |-> st.energy]

\* except: self.error = True; self.energy = None
AfterExcept(st, error) ==
    IF st.raised THEN [error |-> TRUE, energy |-> None]
    ELSE [error |-> error, energy |-> st.energy]

\* a faulty variant: the vector form is preferred to the parameter form
ResolveLattice_VectorFirst(st, lattice) ==
    IF st.lattice_vector # NoLattice THEN [lattice |-> st.lattice_vector, missing |-> FALSE]
    ELSE IF st.lattice_para # NoLattice THEN [lattice |-> st.lattice_para, missing |-> FALSE]
    ELSE [lattice |-> lattice, missing |-> TRUE]

\* the lattice kept after the loop, and the error it flags when there is none
ResolveLattice(st, lattice) ==
    IF st.lattice_para # NoLattice THEN [lattice |-> st.lattice_para, missing |-> FALSE]
    ELSE IF st.lattice_vector # NoLattice THEN [lattice |-> st.lattice_vector, missing |-> FALSE]
    ELSE [lattice |-> lattice, missing |-> TRUE]

\* if self.energy is None or np.isnan(self.energy)
EnergyUnusable(e) == IsNone(e) \/ IsNan(e)

\* GULP.read() on the lines of the log: the calculator and the caller's
\* structure afterwards, with the two lattices the loop found
ReadResult(c, s, st) ==
    LET x == AfterExcept(st, c.error)
        lat == ResolveLattice(st, c.lattice)
        error1 == x.error \/ lat.missing
        energy1 == IF lat.missing THEN None ELSE x.energy
        bad == EnergyUnusable(energy1)
    IN  [calc |-> [c EXCEPT !.energy = IF bad THEN None ELSE energy1,
                            !.energy_per_atom = st.energy_per_atom,
                            !.optimized = st.optimized,
                            !.cputime = st.cputime,
                            !.stress = st.stress,
                            !.forces = st.forces,
                            !.iter = st.iter,
                            !.frac_coords = st.frac_coords,
                            !.lattice = lat.lattice,
                            !.error = error1 \/ bad],
         struc |-> IF c.pyxtal
                   THEN [s EXCEPT !.atom_sites = st.atom_sites, !.lattice = lat.lattice]
                   ELSE s,
         lattice_para |-> st.lattice_para,
         lattice_vector |-> st.lattice_vector,
         raised |-> st.raised]
read(c, s, lines) ==
    The({ReadResult(c, s, st) :
         st \in {Scan(lines, 1, ScanStart(c, s), c, s,
                      IF c.pyxtal THEN s.lattice.ltype ELSE "triclinic")}})

\* --------------------------------------------------------- GULP.__init__
NoCalc ==
    [made |-> FALSE, pyxtal |-> FALSE, symmetry |-> FALSE, pstress |-> None,
     ff |-> "", opt |-> "", steps |-> 0, dump |-> "", labels |-> FALSE,
     lattice |-> NoLattice, frac_coords |-> <<>>, sites |-> <<>>,
     iter |-> Fin(0), energy |-> None, energy_per_atom |-> NoPerAtom,
     stress |-> <<>>, forces |-> <<>>, optimized |-> FALSE,
     cputime |-> Fin(0), error |-> FALSE]

\* GULP(struc, ff=ff, opt=opt, pstress=pstress, symmetry=symmetry): dump and
\* labels keep their default None
GULP(s, ff, opt, pstress, symmetry) ==
    [made |-> TRUE, pyxtal |-> (s.kind = "pyxtal"), symmetry |-> symmetry,
     pstress |-> pstress, ff |-> ff, opt |-> opt, steps |-> 1000, dump |-> "",
     labels |-> FALSE,
     lattice |-> from_matrix(s.lattice.v, "triclinic"),
     frac_coords |-> s.positions, sites |-> s.symbols,
     iter |-> Fin(0), energy |-> None, energy_per_atom |-> NoPerAtom,
     stress |-> <<>>, forces |-> <<>>, optimized |-> FALSE,
     cputime |-> Fin(0), error |-> FALSE]

\* ---------------------------------------------------------------- files
\* the files of the calculator's folder, by name: which of them exist
InputName == "_gulp.in"
OutputName == "_gulp.log"
ErrorName(n) == IF n = InputName THEN "_gulp.in_error" ELSE "_gulp.log_error"
DumpName == "dump.cif"
FileNames == {InputName, OutputName, ErrorName(InputName), ErrorName(OutputName), DumpName}

\* a world: the calculator, the caller's structure, the files that exist in
\* the folder with the text of the deck and of the log, the working
\* directory, the steps taken so far, and the exception on its way to the
\* caller
World(c, s, files, dir) ==
    [calc |-> c, struc |-> s, fs |-> files, cwd |-> dir, trace |-> <<>>,
     deck |-> <<>>, lines |-> <<>>,
     lattice_para |-> NoLattice, lattice_vector |-> NoLattice,
     raised |-> FALSE, exc |-> ""]

\* ------------------------------------------------------------ GULP.write
\* lattice.get_para(degree=True); the modelled cells are orthogonal
get_para(lat) ==
    IF lat.form = "para" THEN lat.v
    ELSE <<lat.v[1], lat.v[5], lat.v[9], Fin(90), Fin(90), Fin(90)>>

DeckHeader(c) ==
    [d |-> "header",
     words |-> (IF c.opt = "single" THEN <<"grad", "conp", "stress">>
                ELSE <<"opti", "stress", c.opt, "conjugate">>)
               \o (IF c.symmetry THEN <<>> ELSE <<"nosymmetry">>)]

CoordLine(sym, pos, kind) == [d |-> "coord", sym |-> sym, pos |-> pos, kind |-> kind]

\* the symmetry-imposed path: the asymmetric unit, a shell for catlow oxygen
RECURSIVE SymmCoords(_, _, _)
SymmCoords(sites, k, ff) ==
    IF k > Len(sites) THEN <<>>
    ELSE <<CoordLine(sites[k].specie, sites[k].position, "core")>>
         \o (IF ff = "catlow" /\ sites[k].specie = "O"
             THEN <<CoordLine(sites[k].specie, sites[k].position, "shell")>>
             ELSE <<>>)
         \o SymmCoords(sites, k + 1, ff)

\* the all-coordinates path: zip(self.frac_coords, self.sites)
AllCoords(c) ==
    [k \in 1..Min(Len(c.frac_coords), Len(c.sites)) |->
        CoordLine(c.sites[k], c.frac_coords[k], "core")]

SpeciesLine(sp, kind, label) == [d |-> "species", sym |-> sp, kind |-> kind, label |-> label]
Range(f) == {f[x] : x \in DOMAIN f}
\* for specie in list(set(self.sites)): the lines come in the order of a
\* set, so the section is kept as the set of its lines
SpeciesLines(sites, ff) ==
    UNION {IF ff = "catlow" /\ sp = "O"
           THEN {SpeciesLine("O", "core", "O_O2-"), SpeciesLine("O", "shell", "O_O2-")}
           ELSE {SpeciesLine(sp, "core", sp)} : sp \in Range(sites)}

\* the deck GULP.write() leaves in self.input
Deck(c, s) ==
    <<DeckHeader(c), [d |-> "cell", v |-> get_para(c.lattice)], [d |-> "fractional"]>>
    \o (IF c.symmetry /\ c.pyxtal
        THEN SymmCoords(s.atom_sites, 1, c.ff)
             \o <<[d |-> "space", number |-> s.number], [d |-> "origin"]>>
        ELSE AllCoords(c))
    \o <<[d |-> "Species", lines |-> SpeciesLines(c.sites, c.ff)]>>
    \o <<[d |-> "library", ff |-> c.ff], [d |-> "ewald"]>>
    \o (IF c.opt # "single" THEN <<[d |-> "maxcycle", steps |-> c.steps]>> ELSE <<>>)
    \o (IF ~IsNone(c.pstress) THEN <<[d |-> "pressure", pstress |-> c.pstress]>> ELSE <<>>)
    \o (IF c.dump # "" THEN <<[d |-> "output", dump |-> c.dump]>> ELSE <<>>)

\* with open(self.input, "w") as f: the file now exists and holds the deck
write(w) ==
    [w EXCEPT !.fs = @ \cup {InputName}, !.deck = Deck(w.calc, w.struc),
              !.trace = Append(@, "write")]

\* ---------------------------------------------------------- GULP.execute
\* the shell creates self.output and the program writes text into it; the
\* return code (None after a failure or a timeout) is dropped by run()
execute(w, text) ==
    [w EXCEPT !.fs = @ \cup {OutputName}, !.lines = text,
              !.trace = Append(@, "execute")]

\* ------------------------------------------------------------ GULP.clean
\* os.system("mv a a_error") for both files, or os.remove of both; then
\* os.remove(self.dump), which raises when the file is not there
RenameAll(files) ==
    (files \ {InputName, OutputName})
    \cup {ErrorName(n) : n \in files \cap {InputName, OutputName}}
\* a faulty variant: the files are removed whether or not the run failed
clean_AlwaysRemove(w) ==
    [w EXCEPT !.fs = @ \ {InputName, OutputName, DumpName},
              !.trace = Append(@, "clean")]

clean(w) ==
    LET kept == IF w.calc.error THEN RenameAll(w.fs) ELSE w.fs \ {InputName, OutputName}
        gone == ~w.calc.error /\ ~({InputName, OutputName} \subseteq w.fs)
    IN  IF gone THEN [w EXCEPT !.exc = "FileNotFoundError", !.trace = Append(@, "clean")]
        ELSE IF w.calc.dump # "" /\ DumpName \notin w.fs
        THEN [w EXCEPT !.fs = kept, !.exc = "FileNotFoundError",
                       !.trace = Append(@, "clean")]
        ELSE [w EXCEPT !.fs = kept \ {DumpName}, !.trace = Append(@, "clean")]

\* the read step of run(): read() on the lines of self.output; open() raises
\* when the file is not there
readLog(w) ==
    IF OutputName \notin w.fs THEN [w EXCEPT !.exc = "FileNotFoundError"]
    ELSE The({[w EXCEPT !.calc = r.calc, !.struc = r.struc,
                        !.lattice_para = r.lattice_para,
                        !.lattice_vector = r.lattice_vector,
                        !.raised = r.raised,
                        !.trace = Append(@, "read")] :
              r \in {read(w.calc, w.struc, w.lines)}})

\* -------------------------------------------------------------- GULP.run
\* a step of run() is skipped once an exception is on its way out
Then(w, stepped) == IF w.exc # "" THEN w ELSE stepped
CallerDir == "."
Folder == "tmp"
\* os.chdir(folder) with a relative folder: it is found from the caller's
\* directory only
chdir(w, folder) ==
    IF w.cwd = CallerDir THEN [w EXCEPT !.cwd = folder]
    ELSE [w EXCEPT !.exc = "FileNotFoundError"]
\* run() up to and including self.read()
runToRead(w, folder, text) ==
    The({Then(w2, readLog(w2)) :
         w2 \in {The({Then(w1, execute(w1, text)) :
                      w1 \in {The({Then(w0, write(w0)) :
                                   w0 \in {chdir(w, folder)}})}})}})
\* the rest of run(): if clean: self.clean(); os.chdir(cwd)
finishRun(w3, doClean, dir) ==
    The({Then(w4, [w4 EXCEPT !.cwd = dir]) :
         w4 \in {IF doClean THEN Then(w3, clean(w3)) ELSE w3}})
run(w, folder, text, doClean) ==
    The({finishRun(w3, doClean, w.cwd) : w3 \in {runToRead(w, folder, text)}})

\* ------------------------------------------------- to_ase, to_pyxtal
\* what a call gives back: a 4-tuple (struc, energy, time, error), or the
\* exception it raised
Ret(st, e, t, err) == [kind |-> "tuple", struc |-> st, energy |-> e, time |-> t, error |-> err]
Raised(e) == [kind |-> "raise", exc |-> e]
NoRet == [kind |-> "none"]

\* lattice.matrix; the modelled cells are orthogonal
matrix(lat) ==
    IF lat.form = "matrix" THEN lat.v
    ELSE <<lat.v[1], Fin(0), Fin(0), Fin(0), lat.v[2], Fin(0), Fin(0), Fin(0), lat.v[3]>>

\* Atoms(self.sites, scaled_positions=self.frac_coords, cell=...): ase
\* raises ValueError when the two arrays differ in length
to_ase(c) ==
    IF Len(c.frac_coords) # Len(c.sites) THEN Raised("ValueError")
    ELSE [kind |-> "atoms", symbol0 |-> "", number |-> 0, atom_sites |-> <<>>,
          lattice |-> from_matrix(matrix(c.lattice), "triclinic"),
          symbols |-> c.sites, positions |-> c.frac_coords]

\* pyxtal().from_seed(ase_atoms, tol): taken to succeed at the first
\* tolerance and to find no symmetry
to_pyxtal(c) ==
    The({IF a.kind = "raise" THEN a
         ELSE [kind |-> "pyxtal", symbol0 |-> "P", number |-> 1,
               atom_sites |-> [n \in 1..Len(a.symbols) |->
                                  [specie |-> a.symbols[n], position |-> a.positions[n]]],
               lattice |-> a.lattice,
               symbols |-> a.symbols, positions |-> a.positions] :
         a \in {to_ase(c)}})

\* ------------------------------------------------------ single_optimize
\* the parameters of single_optimize, in order
SingleOptimizeParams ==
    <<"struc", "ff", "steps", "pstress", "opt", "path", "label", "clean",
      "symmetry", "labels">>
\* a call with npos positional arguments and the keywords kws binds to
\* params; Python raises TypeError when it does not
Binds(npos, kws, params) ==
    /\ npos <= Len(params)
    /\ \A k \in kws : \E n \in (npos + 1)..Len(params) : params[n] = k

\* what single_optimize returns once calc.run() has left the world w
SingleResult(w) ==
    IF w.exc # "" THEN Raised(w.exc)
    ELSE IF w.calc.error THEN Ret(None, None, Fin(0), TRUE)
    ELSE The({IF st.kind = "raise" THEN st
              ELSE Ret(st, w.calc.energy_per_atom, w.calc.cputime, w.calc.error) :
              st \in {IF ~w.calc.pyxtal THEN to_pyxtal(w.calc) ELSE w.struc}})

\* single_optimize(struc, ff, pstress=, opt=, clean=, symmetry=) in the
\* world w0, the program writing text: the world it leaves and what it
\* returns
single_optimize(w0, s, ff, pstress, opt, doClean, symmetry, text) ==
    The({[world |-> w, ret |-> SingleResult(w)] :
         w \in {run(World(GULP(s, ff, opt, pstress, symmetry), s, w0.fs, w0.cwd),
                    Folder, text, doClean)}})

\* ------------------------------------------------------------- optimize
\* the keywords of the call optimize() makes: single_optimize(struc, ff,
\* pstress=, opt=, exe=, path=, label=, clean=)
OptimizeCallKeywords == {"pstress", "opt", "exe", "path", "label", "clean"}
\* a local that no statement has assigned yet
Unbound == [k |-> "unbound", v |-> 0]
\* time_total += time
Plus(a, b) == Fin(a.v + b.v)
\* struc.lattice.set_matrix(matrix * 0.8)
Shrunk(st) ==
    [st EXCEPT !.lattice = [form |-> "matrix", v |-> <<"0.8", matrix(st.lattice)>>,
                             ltype |-> st.lattice.ltype]]
\* abs(energy) < 1e-8
Tiny(e) == e.e.k = "fin" /\ e.e.v = 0

\* the loop of optimize() from its k-th stage on, and its return
RECURSIVE Stages(_, _, _, _, _, _, _, _, _, _, _)
Stages(w, s, ff, opts, k, pstress, doClean, adjust, text, energy, time_total) ==
    IF k > Len(opts)
    THEN [world |-> w, stages |-> k - 1,
          ret |-> IF energy = Unbound THEN Raised("UnboundLocalError")
                  ELSE Ret(s, energy, time_total, FALSE)]
    ELSE IF ~Binds(2, OptimizeCallKeywords, SingleOptimizeParams)
    THEN [world |-> w, stages |-> k - 1, ret |-> Raised("TypeError")]
    ELSE The({IF r.ret.kind = "raise"
              THEN [world |-> r.world, stages |-> k, ret |-> r.ret]
              ELSE IF r.ret.error
              THEN [world |-> r.world, stages |-> k,
                    ret |-> Ret(None, None, Fin(0), TRUE)]
              ELSE Stages(r.world,
                          IF adjust /\ Tiny(r.ret.energy) THEN Shrunk(r.ret.struc)
                          ELSE r.ret.struc,
                          ff, opts, k + 1, pstress, doClean, adjust, text,
                          r.ret.energy, Plus(time_total, r.ret.time)) :
              r \in {single_optimize(w, s, ff, pstress, opts[k], doClean, FALSE, text)}})

\* the optimizations argument: a list, or None
Listed(v) == [k |-> "list", v |-> v]
\* if optimizations is None: optimizations = ["conp", "conp"]
StageList(optimizations) ==
    IF IsNone(optimizations) THEN <<"conp", "conp">> ELSE optimizations.v

\* optimize(struc, ff, optimizations, pstress=, clean=, adjust=)
optimize(w, s, ff, optimizations, pstress, doClean, adjust, text) ==
    Stages(w, s, ff, StageList(optimizations),
           1, pstress, doClean, adjust, text, Unbound, Fin(0))

\* ------------------------------------------------------------- at_types
\* the force-field code of each (element, label) key of gaff2
at_types ==
    ("C_c" :> "C1") @@ ("C_cs" :> "C2") @@ ("C_c1" :> "C3") @@
    ("C_c2" :> "C4") @@ ("C_c3" :> "C5") @@ ("C_ca" :> "C6") @@
    ("C_cp" :> "C7") @@ ("C_cq" :> "C8") @@ ("C_cc" :> "C9") @@
    ("C_cd" :> "C10") @@ ("C_ce" :> "C11") @@ ("C_cf" :> "C12") @@
    ("C_cg" :> "C13") @@ ("C_ch" :> "C14") @@ ("C_cx" :> "C15") @@
    ("C_cy" :> "C14") @@ ("C_cu" :> "C16") @@ ("C_cv" :> "C17") @@
    ("C_cz" :> "C18") @@ ("H_h1" :> "H1") @@ ("H_h2" :> "H2") @@
    ("H_h3" :> "H3") @@ ("H_h4" :> "H4") @@ ("H_h5" :> "H5") @@
    ("H_ha" :> "H6") @@ ("H_hc" :> "H7") @@ ("H_hn" :> "H8") @@
    ("H_ho" :> "H9") @@ ("H_hp" :> "H10") @@ ("H_hs" :> "H11") @@
    ("H_hw" :> "H12") @@ ("H_hx" :> "H13") @@ ("F" :> "F") @@
    ("Cl" :> "Cl") @@ ("Br" :> "Br") @@ ("I" :> "I") @@ ("N_n" :> "N1") @@
    ("N_n1" :> "N2") @@ ("N_n2" :> "N3") @@ ("N_n3" :> "N4") @@
    ("N_n4" :> "N5") @@ ("N_na" :> "N6") @@ ("N_nb" :> "N7") @@
    ("N_nc" :> "N8") @@ ("N_nd" :> "N9") @@ ("N_ne" :> "N10") @@
    ("N_nf" :> "N11") @@ ("N_nh" :> "N12") @@ ("N_no" :> "N13") @@
    ("N_ns" :> "N14") @@ ("N_nt" :> "N15") @@ ("N_nx" :> "N16") @@
    ("N_ny" :> "N17") @@ ("N_nz" :> "N18") @@ ("N_n+" :> "N19") @@
    ("N_nu" :> "N20") @@ ("N_nv" :> "N21") @@ ("N_n7" :> "N22") @@
    ("N_n8" :> "N23") @@ ("N_n9" :> "N24") @@ ("O_o" :> "O1") @@
    ("O_oh" :> "O2") @@ ("O_os" :> "O3") @@ ("O_ow" :> "O4") @@
    ("P_p2" :> "P1") @@ ("P_p3" :> "P2") @@ ("P_p4" :> "P3") @@
    ("P_p5" :> "P4") @@ ("P_pb" :> "P5") @@ ("P_pc" :> "P6") @@
    ("P_pd" :> "P7") @@ ("P_pe" :> "P8") @@ ("P_pf" :> "P9") @@
    ("P_px" :> "P10") @@ ("P_py" :> "P11") @@ ("S_s" :> "S1") @@
    ("S_s2" :> "S2") @@ ("S_s4" :> "S3") @@ ("S_s6" :> "S4") @@
    ("S_sh" :> "S5") @@ ("S_ss" :> "S6") @@ ("S_sx" :> "S7") @@
    ("S_sy" :> "S8")

\* -------------------------------------------------------------- GULP_OC
\* an atom of a molecule: its element, its gmx label and where it is
Atom(symbol, label) == [symbol |-> symbol, label |-> label, coord |-> Origin]
\* a molecular crystal: mol_sites, each the atoms of one molecule
MolStruc(sites) ==
    [kind |-> "molecular", mol_sites |-> sites,
     lattice |-> from_matrix(InputCell, "cubic"), lattice_type |-> "cubic",
     ops |-> 2, energy |-> None]

\* GULP_OC(struc, opt=opt, exe=exe, folder=folder); bond_type, dump and
\* atom_info keep their defaults, and the OCSP_ variables are not set
GULP_OC(s, opt, exe, folder) ==
    [made |-> TRUE, folder |-> folder, ff |-> "gaff2", bond_type |-> FALSE,
     opt |-> opt, exe |-> exe, steps |-> 1000, stepmx |-> "0.001", dump |-> "",
     iter |-> Fin(0), stress |-> <<>>, positions |-> None, species |-> <<>>,
     forces |-> <<>>, optimized |-> FALSE, cell |-> None,
     lattice |-> NoLattice, optlat |-> FALSE, cputime |-> Fin(0),
     version |-> <<>>]

\* symbol = species_string; if symbol not in ["F", "Cl", "Br"]:
\* symbol += "_" + labels[j]
LookupKey(a) ==
    IF a.symbol \in {"F", "Cl", "Br"} THEN a.symbol ELSE a.symbol \o "_" \o a.label

\* a faulty variant: a key that is not in the table gets a default code
lookup_Default(key) ==
    [ok |-> TRUE, code |-> IF key \in DOMAIN at_types THEN at_types[key] ELSE "X"]

\* at_types[symbol], KeyError when the key is not in the table
lookup(key) ==
    IF key \in DOMAIN at_types THEN [ok |-> TRUE, code |-> at_types[key]]
    ELSE [ok |-> FALSE, code |-> ""]

\* the atoms of all sites, in the order the two loops visit them
RECURSIVE AtomsOf(_, _)
AtomsOf(sites, i) ==
    IF i > Len(sites) THEN <<>> ELSE sites[i] \o AtomsOf(sites, i + 1)

\* the coordinate lines written up to the first key that is not supported
RECURSIVE CoordsOC(_, _, _)
CoordsOC(atoms, k, acc) ==
    IF k > Len(atoms) THEN [ok |-> TRUE, lines |-> acc]
    ELSE The({IF ~r.ok THEN [ok |-> FALSE, lines |-> acc]
              ELSE CoordsOC(atoms, k + 1,
                            Append(acc, [d |-> "coord", code |-> r.code,
                                         key |-> LookupKey(atoms[k]),
                                         pos |-> atoms[k].coord, kind |-> "core"])) :
              r \in {lookup(LookupKey(atoms[k]))}})

DeckHeadOC(c, s) ==
    <<[d |-> "header",
       words |-> IF c.opt = "conv" THEN <<"opti", c.opt, "conj", "molecule", "nomod", "qok">>
                 ELSE <<"opti", "stress", c.opt, "conj", "molecule", "nomod", "qok">>],
      [d |-> "cell", v |-> get_para(s.lattice)], [d |-> "fractional"]>>
\* what follows the coordinates: the species (in the order of a set), the
\* symmetry operators of the first site but the identity, the options
DeckTailOC(c, s, coords) ==
    <<[d |-> "Species",
       lines |-> {[d |-> "species", code |-> coords[n].code, kind |-> "core",
                   label |-> coords[n].key] : n \in 1..Len(coords)}],
      [d |-> "symmetry_cell", ltype |-> s.lattice.ltype]>>
    \o [n \in 1..(s.ops - 1) |-> [d |-> "symmetry_operator", op |-> n + 1]]
    \o <<[d |-> "library", ff |-> c.ff], [d |-> "ewald"],
         [d |-> "maxcycle", steps |-> c.steps], [d |-> "stepmx", stepmx |-> c.stepmx],
         [d |-> "ftol"], [d |-> "gtol"], [d |-> "gmax"]>>
    \o (IF c.dump # "" THEN <<[d |-> "output", dump |-> c.dump]>> ELSE <<>>)

\* GULP_OC.write(): the file is opened, and holds what was written before
\* the KeyError when a key is not supported
writeOC(w) ==
    The({IF ~r.ok
         THEN [w EXCEPT !.fs = @ \cup {InputName},
                        !.deck = DeckHeadOC(w.calc, w.struc) \o r.lines,
                        !.exc = "KeyError", !.trace = Append(@, "write")]
         ELSE [w EXCEPT !.fs = @ \cup {InputName},
                        !.deck = DeckHeadOC(w.calc, w.struc) \o r.lines
                                 \o DeckTailOC(w.calc, w.struc, r.lines),
                        !.trace = Append(@, "write")] :
         r \in {CoordsOC(AtomsOf(w.struc.mol_sites, 1), 1, <<>>)}})

\* GULP_OC.execute(): os.system() ignores how the program ends; the
\* gulp.exe way copies the deck to <key>.gin and <key>.gout to the log,
\* which raises when the program left no <key>.gout
GinName == "_gulp.gin"
GoutName == "_gulp.gout"
executeOC(w, text, produced) ==
    IF w.calc.exe = "gulp.exe"
    THEN IF produced
         THEN [w EXCEPT !.fs = @ \cup {GinName, GoutName, OutputName}, !.lines = text,
                        !.trace = Append(@, "execute")]
         ELSE [w EXCEPT !.fs = @ \cup {GinName}, !.exc = "FileNotFoundError",
                        !.trace = Append(@, "execute")]
    ELSE [w EXCEPT !.fs = @ \cup {OutputName}, !.lines = text,
                   !.trace = Append(@, "execute")]

\* the rows of a coordinate block up to its dashed line, with the species
\* column
RECURSIVE ReadRowsOC(_, _, _, _)
ReadRowsOC(lines, s, rows, species) ==
    IF s > Len(lines)
    THEN [ok |-> FALSE, why |-> "IndexError", rows |-> rows, species |-> species]
    ELSE IF DashMark \in lines[s].has
    THEN [ok |-> TRUE, why |-> "", rows |-> rows, species |-> species]
    ELSE The({IF AnyExc(XYZ)
              THEN [ok |-> FALSE, why |-> "ValueError", rows |-> rows, species |-> species]
              ELSE IF Len(lines[s].toks) < 2
              THEN [ok |-> FALSE, why |-> "IndexError", rows |-> rows, species |-> species]
              ELSE ReadRowsOC(lines, s + 1, Append(rows, XYZ),
                              Append(species, lines[s].toks[2])) :
              XYZ \in {FloatAll(Slice36(lines[s].toks))}})

\* the exception of the first conversion that fails in the stress block at
\* line i: IndexError past the end of the log or of a row, ValueError on a
\* token float() rejects
StressRowBad(lines, i, j) ==
    \/ i + j + 3 > Len(lines)
    \/ Len(lines[i + j + 3].toks) < 4
    \/ IsExc(Float(lines[i + j + 3].toks[2]))
    \/ IsExc(Float(lines[i + j + 3].toks[4]))
StressWhy(lines, i) ==
    LET j == CHOOSE a \in 0..2 :
                 StressRowBad(lines, i, a) /\ \A b \in 0..(a - 1) : ~StressRowBad(lines, i, b)
    IN  IF i + j + 3 > Len(lines) THEN "IndexError"
        ELSE IF Len(lines[i + j + 3].toks) < 2 THEN "IndexError"
        ELSE IF IsExc(Float(lines[i + j + 3].toks[2])) THEN "ValueError"
        ELSE IF Len(lines[i + j + 3].toks) < 4 THEN "IndexError"
        ELSE "ValueError"
\* and in the lattice-vector block at line i
CartRowBad(lines, i, j) ==
    \/ i + j > Len(lines)
    \/ Len(lines[i + j].toks) < 3
    \/ \E k \in 1..3 : IsExc(Float(lines[i + j].toks[k]))
CartWhy(lines, i) ==
    LET j == CHOOSE a \in 2..4 :
                 CartRowBad(lines, i, a) /\ \A b \in 2..(a - 1) : ~CartRowBad(lines, i, b)
        n == IF i + j > Len(lines) THEN 0 ELSE Len(lines[i + j].toks)
    IN  IF i + j > Len(lines) THEN "IndexError"
        ELSE IF \E k \in 1..Min(3, n) :
                   IsExc(Float(lines[i + j].toks[k])) THEN "ValueError"
        ELSE "IndexError"
\* the loop body raises: the loop ends and the exception leaves read()
RaiseOC(st, why) == [st EXCEPT !.raised = TRUE, !.why = why]

\* the attributes GULP_OC.read() assigns, as they are before its loop
ScanStartOC(c, s) ==
    [version |-> c.version, energy |-> s.energy, optimized |-> c.optimized,
     cputime |-> c.cputime, stress |-> c.stress, iter |-> c.iter,
     positions |-> c.positions, species |-> c.species, cell |-> c.cell,
     raised |-> FALSE, why |-> ""]

\* one pass of the loop of GULP_OC.read(); nothing catches what it raises
ScanLineOC(lines, i, st0) ==
    LET line == lines[i]
        st == IF i = 8 THEN [st0 EXCEPT !.version = line.toks] ELSE st0
    IN  IF line.pat = "energy" THEN
            LET e == Float(line.val)
            IN  IF IsExc(e) THEN RaiseOC(st, "ValueError") ELSE [st EXCEPT !.energy = e]
        ELSE IF JobFinished \in line.has THEN [st EXCEPT !.optimized = TRUE]
        ELSE IF CpuTime \in line.has THEN
            LET t == Float(line.toks[Len(line.toks)])
            IN  IF IsExc(t) THEN RaiseOC(st, "ValueError") ELSE [st EXCEPT !.cputime = t]
        ELSE IF StressHdr \in line.has THEN
            IF StressOK(lines, i) THEN [st EXCEPT !.stress = StressOf(lines, i)]
            ELSE RaiseOC(st, StressWhy(lines, i))
        ELSE IF CycleMark \in line.has THEN
            LET n == IF Len(line.toks) < 2 THEN Exc ELSE IntOf(line.toks[2])
            IN  IF IsExc(n)
                THEN RaiseOC(st, IF Len(line.toks) < 2 THEN "IndexError" ELSE "ValueError")
                ELSE [st EXCEPT !.iter = n]
        ELSE IF AsymHdr \in line.has \/ FracHdr \in line.has THEN
            The({IF r.ok THEN [st EXCEPT !.positions = Some(r.rows), !.species = r.species]
                 ELSE RaiseOC(st, r.why) :
                 r \in {ReadRowsOC(lines, i + 6, <<>>, <<>>)}})
        ELSE IF CartHdr \in line.has THEN
            IF CartOK(lines, i) THEN [st EXCEPT !.cell = Some(CartOf(lines, i))]
            ELSE RaiseOC(st, CartWhy(lines, i))
        ELSE st

RECURSIVE ScanOC(_, _, _)
ScanOC(lines, i, st) ==
    IF i > Len(lines) \/ st.raised THEN st
    ELSE The({ScanOC(lines, j, nxt) :
              nxt \in {ScanLineOC(lines, i, st)}, j \in {i + 1}})

\* for site in mol_sites: site.update(positions[count : count + len(mol)]),
\* inside the try; update() is taken to raise on a slice that is too short.
\* The sites updated before an exception stay updated.
RECURSIVE UpdateSites(_, _, _, _)
UpdateSites(sites, positions, i, count) ==
    IF i > Len(sites) THEN sites
    ELSE IF IsNone(positions) THEN sites
    ELSE IF count + Len(sites[i]) > Len(positions.v) THEN sites
    ELSE UpdateSites(
             [sites EXCEPT ![i] = [n \in 1..Len(sites[i]) |->
                                      [sites[i][n] EXCEPT !.coord = positions.v[count + n]]]],
             positions, i + 1, count + Len(sites[i]))

\* what read() leaves after its loop ended in st without raising
ReadResultOC(c, s, st) ==
    LET cell == IF IsNone(st.cell) THEN Some(matrix(s.lattice)) ELSE st.cell
        lattice == from_matrix(cell.v, s.lattice_type)
    IN  [calc |-> [c EXCEPT !.version = st.version, !.optimized = st.optimized,
                            !.cputime = st.cputime, !.stress = st.stress,
                            !.iter = st.iter, !.positions = st.positions,
                            !.species = st.species, !.cell = cell,
                            !.lattice = lattice],
         struc |-> [s EXCEPT !.energy = st.energy, !.lattice = lattice,
                             !.mol_sites = IF st.optimized
                                           THEN UpdateSites(@, st.positions, 1, 0)
                                           ELSE @]]
\* what it leaves when the loop raised at st: the attributes assigned so far
RaisedResultOC(c, s, st) ==
    [calc |-> [c EXCEPT !.version = st.version, !.optimized = st.optimized,
                        !.cputime = st.cputime, !.stress = st.stress,
                        !.iter = st.iter, !.positions = st.positions,
                        !.species = st.species, !.cell = st.cell],
     struc |-> [s EXCEPT !.energy = st.energy]]

\* GULP_OC.read() on the lines of self.output
readOC(w) ==
    IF OutputName \notin w.fs THEN [w EXCEPT !.exc = "FileNotFoundError"]
    ELSE The({The({[w EXCEPT !.calc = r.calc, !.struc = r.struc,
                             !.raised = st.raised,
                             !.exc = st.why,
                             !.trace = Append(@, "read")] :
                   r \in {IF st.raised THEN RaisedResultOC(w.calc, w.struc, st)
                          ELSE ReadResultOC(w.calc, w.struc, st)}}) :
              st \in {ScanOC(w.lines, 1, ScanStartOC(w.calc, w.struc))}})

\* GULP_OC.clean(): os.remove of both files
cleanOC(w) ==
    IF {InputName, OutputName} \subseteq w.fs
    THEN [w EXCEPT !.fs = @ \ {InputName, OutputName}, !.trace = Append(@, "clean")]
    ELSE [w EXCEPT !.exc = "FileNotFoundError", !.trace = Append(@, "clean")]

\* os.makedirs(folder) when it is not there, then os.chdir(folder): a
\* relative folder is made under the directory the process is in
chdirOC(w, folder) ==
    IF w.cwd = CallerDir THEN [w EXCEPT !.cwd = folder]
    ELSE [w EXCEPT !.cwd = w.cwd \o "/" \o folder]

\* GULP_OC.run(clean, pause) up to the end of write()
writtenOC(w) ==
    The({Then(w0, writeOC(w0)) : w0 \in {chdirOC(w, w.calc.folder)}})
\* execute(), read() and clean() of a run that was not paused
finishOC(w1, doClean, text, produced) ==
    The({IF doClean THEN Then(w3, cleanOC(w3)) ELSE w3 :
         w3 \in {The({Then(w2, readOC(w2)) :
                      w2 \in {Then(w1, executeOC(w1, text, produced))}})}})
runOC(w, doClean, pause, text, produced) ==
    The({Then(w4, [w4 EXCEPT !.cwd = w.cwd]) :
         w4 \in {The({IF pause THEN w1 ELSE finishOC(w1, doClean, text, produced) :
                      w1 \in {writtenOC(w)}})}})

\* ------------------------------------------------- what a log contains

\* (the vocabulary of the properties; read() does not use these)
HasMark(text, m) == \E i \in 1..Len(text) : m \in text[i].has
\* the value token of the last line that matches pattern p, "" without one
RECURSIVE LastValue(_, _, _)
LastValue(text, p, i) ==
    IF i = 0 THEN ""
    ELSE IF text[i].pat = p THEN text[i].val
    ELSE LastValue(text, p, i - 1)
\* and of the first one
RECURSIVE FirstValue(_, _, _)
FirstValue(text, p, i) ==
    IF i > Len(text) THEN ""
    ELSE IF text[i].pat = p THEN text[i].val
    ELSE FirstValue(text, p, i + 1)
\* the text stops inside the block that the header at line i opens, that
\* is before the last line read() takes from the block: the last of its
\* fixed rows, or its closing dashed line; nasym is the number of rows in
\* the asymmetric unit
CutInside(text, i, nasym) ==
    LET h == text[i].has
        n == Len(text)
    IN  \/ StressHdr \in h /\ n < i + 5
        \/ CartHdr \in h /\ n < i + 4
        \/ ParaHdr \in h /\ n < i + 3
        \/ AsymHdr \in h /\ n < i + 5 + (IF nasym = 0 THEN 1 ELSE nasym)
        \/ (FracHdr \in h \/ DerivHdr \in h)
           /\ ~\E j \in (i + 6)..n : DashMark \in text[j].has
TruncatedInBlock(text, nasym) == \E i \in 1..Len(text) : CutInside(text, i, nasym)
\* a token that is no number, on a line that is not an energy line of a
\* pattern other than p
Malformed(text, p) ==
    \E i \in 1..Len(text) :
        /\ text[i].pat \in {"", p}
        /\ \E n \in 1..Len(text[i].toks) : text[i].toks[n] = "bad"
\* the last header of a block of kind h whose rows are all there and all
\* numbers, 0 without one
RECURSIVE LastWhole(_, _, _)
LastWhole(text, h, i) ==
    IF i = 0 THEN 0
    ELSE IF h \in text[i].has
            /\ (IF h = ParaHdr THEN ParaOK(text, i) ELSE CartOK(text, i)) THEN i
    ELSE LastWhole(text, h, i - 1)
Observe(text, p, nasym) ==
    [hasJob |-> HasMark(text, JobFinished),
     first |-> [q \in EnergyPats |-> FirstValue(text, q, 1)],
     last |-> [q \in EnergyPats |-> LastValue(text, q, Len(text))],
     truncated |-> TruncatedInBlock(text, nasym),
     malformed |-> Malformed(text, p),
     paraAt |-> LastWhole(text, ParaHdr, Len(text)),
     cartAt |-> LastWhole(text, CartHdr, Len(text))]

\* ------------------------------------------------------------------ state
VARIABLES
    calc,     \* the GULP calculator, NoCalc before it is constructed
    struc,    \* the caller's structure object (calc.pyxtal refers to it)
    fs,       \* the names of the files in the calculator's folder
    cwd,      \* the working directory of the process
    gulpOut,  \* the text the external program has to write when it is run
    segs,     \* how many segments were added to gulpOut so far
    runs,     \* how many times run() was called on the calculator
    last      \* the last call: its arguments, its steps, what it started from

vars == <<calc, struc, fs, cwd, gulpOut, segs, runs, last>>

NoLast ==
    [op |-> "", clean |-> FALSE, outcome |-> "", trace |-> <<>>,
     deck |-> <<>>, obs |-> Observe(<<>>, "", 0),
     lattice_para |-> NoLattice, lattice_vector |-> NoLattice,
     raised |-> FALSE, exc |-> "", pre |-> NoCalc, preStruc |-> NoStruc,
     preFs |-> {}, ret |-> NoRet, stages |-> 0, optimizations |-> <<>>, pause |-> FALSE]

\* the record of a call that ran the calculator pre on structure preStruc
\* and left the world w
Called(op, doClean, outcome, w, obs, pre, preStruc, ret) ==
    [op |-> op, clean |-> doClean, outcome |-> outcome, trace |-> w.trace,
     deck |-> w.deck, obs |-> obs,
     lattice_para |-> w.lattice_para, lattice_vector |-> w.lattice_vector,
     raised |-> w.raised, exc |-> w.exc,
     pre |-> pre, preStruc |-> preStruc, preFs |-> fs, ret |-> ret,
     stages |-> 0, optimizations |-> <<>>, pause |-> FALSE]

Init ==
    /\ calc = NoCalc
    /\ struc = NoStruc
    /\ fs = {}
    /\ cwd = CallerDir
    /\ gulpOut = <<>>
    /\ segs = 0
    /\ runs = 0
    /\ last = NoLast

\* the inputs of the model
Strucs == {AtomsStruc, PyxtalStruc("P"), PyxtalStruc("F")}
Pressures == {None, Fin(0), Fin(5)}
EnergyToks == {"-4", "-6", "nan", "inf", "bad"}
Outcomes == {"ok", "failed", "timeout"}

\* calc = GULP(struc, pstress=..., symmetry=...); __init__ makes the folder
Construct(s, pstress, symmetry) ==
    /\ ~calc.made
    /\ calc' = GULP(s, "reaxff", "conp", pstress, symmetry)
    /\ struc' = s
    /\ UNCHANGED <<fs, cwd, gulpOut, segs, runs, last>>

\* calc = GULP(struc, ff=ff, symmetry=symmetry)
ConstructFF(s, ff, symmetry) ==
    /\ ~calc.made
    /\ calc' = GULP(s, ff, "conp", None, symmetry)
    /\ struc' = s
    /\ UNCHANGED <<fs, cwd, gulpOut, segs, runs, last>>

\* the external program's output grows by one segment
Emit(block) ==
    /\ segs < MaxSegs
    /\ gulpOut' = gulpOut \o block
    /\ segs' = segs + 1
    /\ UNCHANGED <<calc, struc, fs, cwd, runs, last>>

EmitEnergy(P, V) == \E p \in P, v \in V : Emit(<<EnergyLine(p, v)>>)
EmitJob == Emit(<<JobLine>>)
EmitCpu == \E t \in {"2", "bad"} : Emit(<<CpuLine(t)>>)
EmitCycle == \E t \in {"1", "bad"} : Emit(<<CycleLine(t)>>)
EmitStress == \E x \in {"1", "bad"} : Emit(StressBlock(x))
EmitDeriv == \E y \in {"1", "1-2", "bad"} : Emit(DerivBlock(y))
EmitAsym == \E x \in {"1", "bad"} : Emit(AsymBlock(1, x))
EmitFrac == \E n \in 0..2, x \in {"1", "bad"} : Emit(FracBlock(n, x))
EmitCart(X) == \E x \in X : Emit(CartBlock(x))
EmitPara == \E x \in {"2", "bad"} : Emit(ParaBlock(x))
\* what the program prints at the end of a relaxation
EmitFinal(P) == \E p \in P : Emit(FinalReport(p, "-6"))

\* calc.run(clean=doClean), for at most limit runs of the calculator: the
\* program ends by itself ("ok", or "failed" with a non-zero return code)
\* after writing all of gulpOut, or is stopped at the timeout after writing
\* its first k lines
Run(limit) ==
    /\ calc.made
    /\ runs < limit
    /\ \E k \in 0..Len(gulpOut) :
         \E text \in {SubSeq(gulpOut, 1, k)} :
         \E w3 \in {runToRead(World(calc, struc, fs, cwd), Folder, text)},
            obs \in {Observe(text, SelectedPattern(calc, struc), Len(struc.atom_sites))} :
             \E doClean \in BOOLEAN, outcome \in Outcomes :
               /\ outcome = "timeout" \/ k = Len(gulpOut)
               /\ \E w \in {finishRun(w3, doClean, cwd)} :
                      /\ calc' = w.calc
                      /\ struc' = w.struc
                      /\ fs' = w.fs
                      /\ cwd' = w.cwd
                      /\ last' = Called("run", doClean, outcome, w, obs,
                                         calc, struc, NoRet)
    /\ gulpOut' = <<>>
    /\ runs' = runs + 1
    /\ UNCHANGED segs

\* single_optimize(s, "reaxff", pstress=, clean=, symmetry=) by a caller
\* that holds no calculator
SingleOptimize ==
    /\ ~calc.made
    /\ last.op = ""
    /\ \E s \in Strucs, pstress \in Pressures, symmetry \in BOOLEAN, k \in 0..Len(gulpOut) :
         \E text \in {SubSeq(gulpOut, 1, k)}, c0 \in {GULP(s, "reaxff", "conp", pstress, symmetry)} :
         \E obs \in {Observe(text, SelectedPattern(c0, s), Len(s.atom_sites))} :
         \E doClean \in BOOLEAN, outcome \in Outcomes :
           /\ outcome = "timeout" \/ k = Len(gulpOut)
           /\ \E r \in {single_optimize(World(calc, struc, fs, cwd), s, "reaxff",
                                         pstress, "conp", doClean, symmetry, text)} :
                 /\ calc' = r.world.calc
                 /\ struc' = r.world.struc
                 /\ fs' = r.world.fs
                 /\ cwd' = r.world.cwd
                 /\ last' = Called("single_optimize", doClean, outcome, r.world,
                                    obs, c0, s, r.ret)
    /\ gulpOut' = <<>>
    /\ runs' = runs + 1
    /\ UNCHANGED segs

\* the lists of stages a caller passes to optimize()
Optimizations ==
    {[k |-> "none", v |-> <<>>], Listed(<<>>), Listed(<<"conp">>),
     Listed(<<"conv", "conp">>)}

\* optimize(s, "reaxff", optimizations, pstress=, clean=, adjust=)
Optimize ==
    /\ ~calc.made
    /\ last.op = ""
    /\ \E s \in Strucs, optimizations \in Optimizations, pstress \in Pressures,
          doClean \in BOOLEAN, adjust \in BOOLEAN :
         \E r \in {optimize(World(calc, struc, fs, cwd), s, "reaxff", optimizations,
                             pstress, doClean, adjust, gulpOut)} :
             /\ calc' = r.world.calc
             /\ struc' = r.world.struc
             /\ fs' = r.world.fs
             /\ cwd' = r.world.cwd
             /\ last' = [Called("optimize", doClean, "ok", r.world,
                                 Observe(gulpOut, "", 0), calc, s, r.ret)
                         EXCEPT !.stages = r.stages,
                                !.optimizations = StageList(optimizations)]
    /\ gulpOut' = <<>>
    /\ runs' = runs + 1
    /\ UNCHANGED segs

\* the atoms and molecules of the molecular crystals
MaxAtoms == 2
MaxMols == 2
AtomKinds == {Atom("C", "c3"), Atom("F", "f"), Atom("C", "zz")}
Molecules == UNION {[1..n -> AtomKinds] : n \in 1..MaxAtoms}
MolStrucs == {MolStruc(sites) : sites \in UNION {[1..n -> Molecules] : n \in 1..MaxMols}}

\* the opt= and exe= keywords the constructor is called with
OptionsOC ==
    {[opt |-> "conp", exe |-> "gulp"], [opt |-> "conv", exe |-> "gulp"],
     [opt |-> "conp", exe |-> "gulp.exe"]}

\* calc = GULP_OC(struc, opt=, exe=, folder="tmp")
ConstructOC ==
    /\ ~calc.made
    /\ \E s \in MolStrucs, o \in OptionsOC :
         /\ calc' = GULP_OC(s, o.opt, o.exe, Folder)
         /\ struc' = s
    /\ UNCHANGED <<fs, cwd, gulpOut, segs, runs, last>>

\* calc.run(clean=doClean, pause=pause) on a GULP_OC: the program writes
\* all of gulpOut, or dies after its first k lines; the gulp.exe way
\* depends on the program leaving its .gout file
RunOC ==
    /\ calc.made
    /\ runs < 1
    /\ \E k \in 0..Len(gulpOut), doClean \in BOOLEAN, pause \in BOOLEAN,
          produced \in BOOLEAN :
         /\ produced \/ calc.exe = "gulp.exe"
         /\ \E text \in {SubSeq(gulpOut, 1, k)} :
            \E w \in {runOC(World(calc, struc, fs, cwd), doClean, pause, text, produced)} :
             /\ calc' = w.calc
             /\ struc' = w.struc
             /\ fs' = w.fs
             /\ cwd' = w.cwd
             /\ last' = [Called("run_oc", doClean,
                                 IF k = Len(gulpOut) THEN "ok" ELSE "failed", w,
                                 Observe(text, "energy", 0), calc, struc, NoRet)
                         EXCEPT !.pause = pause]
    /\ gulpOut' = <<>>
    /\ runs' = runs + 1
    /\ UNCHANGED segs

\* the calculator is constructed and was not run yet

Fresh == calc.made /\ runs = 0

\* one run of a freshly constructed calculator, on any log of MaxSegs segments
Next ==
    \/ \E s \in Strucs, p \in Pressures, y \in BOOLEAN : Construct(s, p, y)
    \/ Fresh /\ EmitEnergy(EnergyPats, EnergyToks)
    \/ Fresh /\ EmitJob
    \/ Fresh /\ EmitCpu
    \/ Fresh /\ EmitCycle
    \/ Fresh /\ EmitStress
    \/ Fresh /\ EmitDeriv
    \/ Fresh /\ EmitAsym
    \/ Fresh /\ EmitFrac
    \/ Fresh /\ EmitCart({"3", "bad"})
    \/ Fresh /\ EmitPara
    \/ Fresh /\ EmitFinal(EnergyPats)
    \/ Run(1)

Spec == Init /\ [][Next]_vars

\* a calculator that is run again, up to MaxRuns times, on short logs
NextReuse ==
    \/ \E s \in Strucs, p \in Pressures, y \in BOOLEAN : Construct(s, p, y)
    \/ calc.made /\ EmitJob
    \/ calc.made /\ EmitCart({"3"})
    \/ calc.made /\ EmitFinal({"energy"})
    \/ Run(MaxRuns)

SpecReuse == Init /\ [][NextReuse]_vars

\* nothing was called yet
Idle == ~calc.made /\ last.op = ""

\* one call of a driver, on a log of MaxSegs segments
NextOpt ==
    \/ Idle /\ EmitEnergy({"energy"}, {"-4", "nan"})
    \/ Idle /\ EmitCpu
    \/ Idle /\ EmitFrac
    \/ Idle /\ EmitCart({"3"})
    \/ Idle /\ EmitFinal({"energy"})
    \/ SingleOptimize
    \/ Optimize

SpecOpt == Init /\ [][NextOpt]_vars

\* one run of a molecular calculator
NextOC ==
    \/ ConstructOC
    \/ Fresh /\ EmitJob
    \/ Fresh /\ EmitCart({"3", "bad"})
    \/ Fresh /\ EmitFinal({"energy"})
    \/ RunOC

SpecOC == Init /\ [][NextOC]_vars

\* one run of a calculator of either force field, on oxides and others
DeckStrucs == {AtomsStruc, PyxtalStruc("P"), OxideStruc("P"), OxideStruc("F")}
NextDeck ==
    \/ \E s \in DeckStrucs, ff \in {"reaxff", "catlow"}, y \in BOOLEAN :
          ConstructFF(s, ff, y)
    \/ Fresh /\ EmitJob
    \/ Fresh /\ EmitFinal({"energy"})
    \/ Run(1)

SpecDeck == Init /\ [][NextDeck]_vars

\* ------------------------------------------------------------ properties
Ran == last.op = "run"

\* C1: a log with no `Job Finished` line ends read() with error = True and
\* energy = None, whatever energy, coordinate and lattice blocks it holds.
C1_NoJobFinishedIsError ==
    (Ran /\ ~last.obs.hasJob) => (calc.error /\ IsNone(calc.energy))

\* C2: whenever a caller can look at a constructed calculator, error = True
\* implies energy = None; and once run() has returned, energy is None
\* exactly when error is True.
C2_ErrorMeansNoEnergy ==
    calc.made =>
        /\ calc.error => IsNone(calc.energy)
        /\ (Ran /\ last.exc = "") => (IsNone(calc.energy) <=> calc.error)

\* C3: a log that stops inside a block, or holds a malformed number on a
\* line read() converts, makes run() return without raising, with
\* error = True.
C3_BrokenLogIsError ==
    (Ran /\ (last.obs.truncated \/ last.obs.malformed))
        => (last.exc = "" /\ calc.error /\ IsNone(calc.energy))
C3_Witness ==
    /\ Ran
    /\ last.outcome = "timeout"
    /\ last.obs.truncated
    /\ last.obs.last["energy"] = "-6"
    /\ last.lattice_vector # NoLattice
    /\ last.raised
    /\ calc.error

\* C4: when the external program times out or exits with a failure, run()
\* ends with error = True and no energy, whatever the program had written.
C4_StoppedProcessIsError ==
    (Ran /\ last.outcome \in {"failed", "timeout"})
        => (calc.error /\ IsNone(calc.energy))

\* C8: after read() the lattice is the parameter form when a `Non-primitive
\* lattice parameters` block was parsed, whichever block came first; else
\* the vector form when a `Final Cartesian lattice vectors` block was
\* parsed; else the lattice read() started with, with error = True and
\* energy = None.  Without an exception every whole block of the log is
\* parsed.
C8_LatticePrecedence ==
    Ran =>
        /\ last.lattice_para # NoLattice => calc.lattice = last.lattice_para
        /\ (last.lattice_para = NoLattice /\ last.lattice_vector # NoLattice)
              => calc.lattice = last.lattice_vector
        /\ (last.lattice_para = NoLattice /\ last.lattice_vector = NoLattice)
              => (calc.lattice = last.pre.lattice /\ calc.error /\ IsNone(calc.energy))
        /\ ~last.raised =>
              /\ (last.obs.paraAt > 0) = (last.lattice_para # NoLattice)
              /\ (last.obs.cartAt > 0) = (last.lattice_vector # NoLattice)
              /\ last.obs.paraAt > 0 => calc.lattice.form = "para"
              /\ (last.obs.paraAt = 0 /\ last.obs.cartAt > 0) => calc.lattice.form = "matrix"
C8_Witness ==
    /\ Ran
    /\ ~last.raised
    /\ last.obs.paraAt > 0
    /\ last.obs.cartAt > last.obs.paraAt
    /\ calc.lattice.form = "para"
    /\ calc.lattice = last.lattice_para

\* C9: after run(clean=True) returns, the deck and the log are gone under
\* their own names: removed when the error flag is clear, renamed with the
\* `_error` suffix when it is set; the steps were write, execute, read,
\* clean, in that order, with one write.
C9_CleanAfterRun ==
    (Ran /\ last.clean /\ last.exc = "") =>
        /\ fs \cap {InputName, OutputName} = {}
        /\ calc.error =>
              fs = (last.preFs \ {InputName, OutputName})
                   \cup {ErrorName(InputName), ErrorName(OutputName)}
        /\ ~calc.error => fs = last.preFs \ {InputName, OutputName}
        /\ last.trace = <<"write", "execute", "read", "clean">>
C9_Witness ==
    /\ Ran
    /\ last.clean
    /\ last.exc = ""
    /\ calc.error
    /\ fs = {ErrorName(InputName), ErrorName(OutputName)}

\* the pattern C10 states for a calculator
ClaimedPattern(c, s) ==
    IF c.symmetry /\ s.symbol0 # "P" THEN "nonprim"
    ELSE IF IsNone(c.pstress) \/ c.pstress = Fin(0) THEN "energy"
    ELSE "enthalpy"

\* C10: the energy pattern of a scan depends on the calculator only:
\* `Non-primitive unit cell` under symmetry with a space group whose symbol
\* does not start with P, else `Total lattice energy` when pstress is None
\* or 0, else `Total lattice enthalpy`.  Lines of the two other patterns
\* never set the energy: a scan that ends without an exception leaves the
\* value of the last line of that pattern in energy_per_atom (what it held
\* before when there is no such line), and an energy that is kept after
\* read() is that value.
C10_EnergyPattern ==
    Ran =>
        LET v == last.obs.last[ClaimedPattern(last.pre, last.preStruc)]
        IN  /\ ~last.raised =>
                  calc.energy_per_atom.e =
                      IF v = "" THEN last.pre.energy_per_atom.e ELSE Float(v)
            /\ ~IsNone(calc.energy) =>
                  calc.energy = IF v = "" THEN last.pre.energy ELSE Float(v)
C10_Witness ==
    /\ Ran
    /\ last.pre.symmetry
    /\ last.preStruc.symbol0 = "F"
    /\ last.obs.first["nonprim"] = "-4"
    /\ last.obs.last["nonprim"] = "-6"
    /\ last.obs.last["energy"] = ""
    /\ calc.energy = Fin(-6)

\* C5: single_optimize returns (None, None, 0, True) without raising when
\* the calculator's error flag is set after the run, and otherwise
\* (structure, energy_per_atom, cputime, False) with an energy_per_atom that
\* is not None.
C5_SingleOptimizeTuple ==
    last.op = "single_optimize" =>
        /\ last.ret.kind = "tuple"
        /\ calc.error => last.ret = Ret(None, None, Fin(0), TRUE)
        /\ ~calc.error =>
              /\ last.ret.struc # None
              /\ last.ret.energy = calc.energy_per_atom
              /\ ~IsNone(last.ret.energy.e)
              /\ last.ret.time = calc.cputime
              /\ last.ret.error = FALSE

\* C6: optimize() runs single_optimize once per entry of optimizations, in
\* order; when every stage succeeds it returns the last structure and
\* energy, the summed CPU time and error False, and at the first stage that
\* reports an error it returns (None, None, 0, True) and runs no later
\* stage.
C6_OptimizeStages ==
    last.op = "optimize" =>
        /\ last.ret.kind = "tuple"
        /\ last.ret.error =>
              /\ last.ret = Ret(None, None, Fin(0), TRUE)
              /\ last.stages \in 1..Len(last.optimizations)
        /\ ~last.ret.error => last.stages = Len(last.optimizations)

\* the keys write() looks up for the atoms of a molecular crystal
KeysOf(s) ==
    {LookupKey(AtomsOf(s.mol_sites, 1)[n]) : n \in 1..Len(AtomsOf(s.mol_sites, 1))}
CoordLinesOf(deck) == {deck[n] : n \in {m \in 1..Len(deck) : deck[m].d = "coord"}}

\* C7: when the lookup key of a site of a molecular crystal is not a key of
\* at_types, write() raises KeyError inside run(), no coordinate line of the
\* deck carries a code that is not the table's code for its key, and
\* execute() is not called.
C7_UnsupportedTypeStopsRun ==
    (last.op = "run_oc" /\ ~(KeysOf(last.preStruc) \subseteq DOMAIN at_types)) =>
        /\ last.exc = "KeyError"
        /\ last.trace = <<"write">>
        /\ \A l \in CoordLinesOf(last.deck) :
              l.key \in DOMAIN at_types /\ l.code = at_types[l.key]
        /\ OutputName \notin fs
C7_Witness ==
    /\ last.op = "run_oc"
    /\ ~last.pause
    /\ last.exc = "KeyError"
    /\ Cardinality(CoordLinesOf(last.deck)) = 1
    /\ Len(AtomsOf(last.preStruc.mol_sites, 1)) = 3
    /\ InputName \in fs

\* C11: when the value on the last line of the selected energy pattern is
\* not a finite number (nan, inf, -inf, or no number at all), run() ends
\* with error = True and energy = None.
C11_NonFiniteEnergyIsError ==
    (Ran /\ last.obs.last[ClaimedPattern(last.pre, last.preStruc)]
                \in {"nan", "inf", "-inf", "bad"})
        => (calc.error /\ IsNone(calc.energy))

\* the coordinate lines of a deck, in order, and the lines of its Species
\* section
CoordSeqOf(deck) == SelectSeq(deck, LAMBDA l : l.d = "coord")
SpeciesOf(deck) ==
    UNION {deck[n].lines : n \in {m \in 1..Len(deck) : deck[m].d = "Species"}}

\* C12: in a deck written with ff = catlow every oxygen core line is
\* followed by a shell line at the same coordinate, on the symmetry path
\* and on the all-coordinates path; no other line has a shell (none under
\* another force field); and there are oxygen shell coordinate lines exactly
\* when the Species section declares an oxygen shell.
C12_ShellPairs ==
    (Ran /\ Len(last.deck) > 0) =>
        LET cs == CoordSeqOf(last.deck)
            catlow == last.pre.ff = "catlow"
            shells == {n \in 1..Len(cs) : cs[n].kind = "shell"}
        IN  /\ \A n \in 1..Len(cs) :
                  (catlow /\ cs[n].kind = "core" /\ cs[n].sym = "O") =>
                      /\ n < Len(cs)
                      /\ cs[n + 1] = [cs[n] EXCEPT !.kind = "shell"]
            /\ \A n \in shells :
                  /\ catlow
                  /\ cs[n].sym = "O"
                  /\ n > 1
                  /\ cs[n - 1] = [cs[n] EXCEPT !.kind = "core"]
            /\ (shells # {}) <=>
                  (\E l \in SpeciesOf(last.deck) : l.sym = "O" /\ l.kind = "shell")

\* C13: a run on a pyxtal structure that ends with error = True leaves the
\* caller's structure with the asymmetric-unit site positions and the cell
\* it had before the run.
C13_StructureKeptOnError ==
    (Ran /\ last.pre.pyxtal /\ last.exc = "" /\ calc.error) =>
        /\ struc.atom_sites = last.preStruc.atom_sites
        /\ matrix(struc.lattice) = matrix(last.preStruc.lattice)

\* C14: after a read() that ends with error = False the calculator holds as
\* many fractional-coordinate rows as it has sites (the species list that
\* to_ase and to_pymatgen pair them with).
C14_RowsMatchSites ==
    (Ran /\ ~calc.error) => Len(calc.frac_coords) = Len(calc.sites)

\* C15: GULP_OC.read() returns normally on every log, also one that stops
\* inside a block or holds a malformed number, and the coordinates of the
\* molecular sites change only when the log has a `Job Finished` line.
C15_ReadOCNeverRaises ==
    (last.op = "run_oc" /\ Len(last.trace) >= 3) =>
        /\ ~last.raised
        /\ last.exc \notin {"IndexError", "ValueError"}
        /\ struc.mol_sites # last.preStruc.mol_sites => last.obs.hasJob

\* C16: run() of either calculator leaves the working directory of the
\* process as it was before the call, on every way out of run().
C16_CwdRestored ==
    last.op \in {"run", "run_oc"} => cwd = CallerDir

====
